---- MODULE Spec2Model ----
(***************************************************************************)
(* A model of mehrmann/rustism: the chromosome DNA codec, the feed-forward *)
(* network's flat (de)serialisation and propagation, and one generation of *)
(* the genetic algorithm (selection, crossover, mutation).                 *)
(*                                                                         *)
(* Numbers.  Genes, weights and fitness values are f32 in the source.  A   *)
(* real value x is held as the integer x * Unit, Unit = 2^15, so the model *)
(* covers exactly the f32 values that are multiples of 2^-15 (every f32    *)
(* of magnitude >= 256, and the dyadic ones below).  f32 rounding is       *)
(* modelled by Round24 (24 significant bits, ties to even).                *)
(* Characters are their ASCII codes; a string is a sequence of codes.      *)
(***************************************************************************)
EXTENDS Integers, Sequences, FiniteSets, TLC

VARIABLES
    \* ---- DNA codec (chromosome.rs)
    genes,      \* Chromosome.genes of the chromosome being encoded
    dna,        \* the DNA text
    decoded,    \* genes of the chromosome from_dna returned
    dnaPc,      \* "off" | "genes" | "text" | "encoded" | "decoded" | "panicked"
    dnaSrc,     \* "off" | "genes" | "text": where the DNA text came from
    \* ---- Network (neural-network/src/lib.rs)
    topology,   \* the layer widths handed to from_data
    flatIn,     \* the flat sequence handed to from_data
    network,    \* Network.layers: layers of neurons [bias, weights]
    netPc,      \* "off" | "start" | "built" | "failed"
    netErr,     \* "none" | the panic that ended from_data
    flatOut,    \* what data() yielded
    dataDone,   \* whether data() has been collected
    inputs,     \* the vector handed to propagate
    outputs,    \* the vector propagate returned
    propPc,     \* "idle" | "ok" | "arity" | "index"
    \* ---- GeneticAlgorithm (natural-selection/src/lib.rs) and its caller
    chance,     \* GaussianMutation.chance, scaled as a gene is
    coefficient,\* GaussianMutation.coefficient
    seed,       \* the random stream of the RngCore handed to evolve
    rngPos,     \* how many values of the stream have been drawn
    population, \* the slice handed to evolve: [chromosome, fitness] each
    gaPc,       \* "off" | "idle" | a step of StepOrder | "done" | "panic";
                \* "picked" | "nopick" after a select called on its own;
                \* "hydrated" | "unhydrated" after the simulation's from_data
    slot,       \* the index (from 0) of the output slot being produced
    parentA,    \* the chromosome select returned first
    parentB,    \* the chromosome select returned second
    pickA,      \* the place (from 1) in the population of the first pick
    pickB,      \* the place (from 1) in the population of the second pick
    crossed,    \* the child as crossover returned it
    child,      \* the child, mutated in place
    offspring,  \* the individuals collected so far
    drawLog,    \* per draw of this evolve call: its slot, step and position
    generation, \* the number of the evolve call, from 1
    run,        \* 1, or 2 once the session is repeated from its start
    history,    \* per finished call of run 1: input, output, stream position
    \* ---- value_to_string / string_to_value on the whole of u32
    token,      \* the token handed to string_to_value
    word,       \* the u32 handed to value_to_string, as 16-bit halves [hi, lo]
    overflowChecks, \* whether the build panics on integer overflow (else wraps)
    valText,    \* what value_to_string returned
    valOut,     \* what string_to_value returned: [st, v]
    valPc,      \* "off" | "token" | "word" | "encoded" | "decoded" | "returned"
    \* ---- the simulation's evolution system (sim/src/main.rs)
    brains      \* the networks from_data made of the last offspring

dnaVars == <<genes, dna, decoded, dnaPc, dnaSrc>>

netVars == <<topology, flatIn, network, netPc, netErr, flatOut, dataDone,
             inputs, outputs, propPc>>

gaVars == <<chance, coefficient, seed, rngPos, population, gaPc, slot, parentA,
            parentB, pickA, pickB, crossed, child, offspring, drawLog, generation, run, history>>

valVars == <<token, word, overflowChecks, valText, valOut, valPc>>

vars == <<dnaVars, netVars, gaVars, valVars, brains>>

----------------------------------------------------------------------------
(* Bounds of the model *)

MaxGenes == 2
MaxText == 3
MaxLayers == 3
MaxWidth == 2
MaxData == 7
MaxToken == 6
MaxPop == 2
MaxLen == 2
MaxGenerations == 2
TapeLen == 2
RngRes == 2

----------------------------------------------------------------------------
(* f32 arithmetic on scaled integers *)

\* 2^15: the model's unit; 1.0 is Unit
Unit == 2^15

\* the literals 1000.0 of to_dna / from_dna
Thousand == 1000

\* f32 has 24 significant bits
Sig24 == 2^24

Abs(n) == IF n < 0 THEN -n ELSE n

RECURSIVE Pow2(_)
Pow2(k) == IF k <= 0 THEN 1 ELSE 2 * Pow2(k - 1)

\* n / d rounded to the nearest integer, ties to even (n >= 0, d > 0)
RNE(n, d) ==
    LET q == n \div d
        r == n % d
    IN  IF 2 * r > d THEN q + 1
        ELSE IF 2 * r < d THEN q
        ELSE IF q % 2 = 0 THEN q ELSE q + 1

\* the number of bits a natural a has beyond 24 (0 when a < 2^24)
RECURSIVE ExcessBits(_)
ExcessBits(a) == IF a < Sig24 THEN 0 ELSE 1 + ExcessBits(a \div 2)

\* an integer rounded to 24 significant bits, ties to even: the rounding every
\* f32 operation applies to its exact result (the scale does not matter)
Round24(n) ==
    LET a == Abs(n)
        s == ExcessBits(a)
        m == RNE(a, Pow2(s)) * Pow2(s)
    IN  IF n < 0 THEN -m ELSE m

\* whether the scaled integer is an f32 value
IsF32(n) == Round24(n) = n

\* floor(log2(n / d)) for n > 0, d > 0 (negative when n < d)
RECURSIVE Binade(_, _)
Binade(n, d) ==
    IF n < d THEN Binade(2 * n, d) - 1
    ELSE IF n \div 2 < d THEN 0
    ELSE 1 + Binade(n \div 2, d)

----------------------------------------------------------------------------
(* Chromosome: the DNA codec, chromosome.rs *)

\* ASCII codes of the characters the codec tests
ChA == 97
ChZ == 122
ChUpA == 65
ChUpZ == 90
ChDash == 45

\* the radix of value_to_string / string_to_value
Radix == 52

\* value_to_string's digit: m < 26 gives 'a' + m, otherwise 'A' + (m - 26)
DigitChar(m) == IF m < 26 THEN ChA + m ELSE m - 26 + ChUpA

\* value_to_string without the final rev(): least significant digit first
RECURSIVE ValueToStringNoRev(_)
ValueToStringNoRev(x) ==
    IF x \div Radix = 0 THEN <<DigitChar(x % Radix)>>
    ELSE <<DigitChar(x % Radix)>> \o ValueToStringNoRev(x \div Radix)

\* Chromosome::value_to_string: least significant digit first, then reversed
RECURSIVE ValueToString(_)
ValueToString(x) ==
    IF x \div Radix = 0 THEN <<DigitChar(x % Radix)>>
    ELSE ValueToString(x \div Radix) \o <<DigitChar(x % Radix)>>

\* the upper-case test with c > 'A' for c >= 'A'
IsUpperExclusive(c) == c > ChUpA /\ c <= ChUpZ

IsUpper(c) == c >= ChUpA /\ c <= ChUpZ

IsLower(c) == c >= ChA /\ c <= ChZ

\* Chromosome::string_to_value: v = v * 52 + digit(c), left to right; panics
\* on a character outside A-Z, a-z.  (Tokens of up to 5 characters stay below
\* 52^5 < 2^31, so the u32 accumulator cannot overflow within MaxText;
\* StringToValue32 is the same function on tokens of any length.)
RECURSIVE StringToValueFrom(_, _)
StringToValueFrom(s, v) ==
    IF s = <<>> THEN [st |-> "ok", v |-> v]
    ELSE LET c == Head(s)
             w == v * Radix
         IN  IF IsUpper(c) THEN StringToValueFrom(Tail(s), w + 26 + (c - ChUpA))
             ELSE IF IsLower(c) THEN StringToValueFrom(Tail(s), w + (c - ChA))
             ELSE [st |-> "panic", v |-> 0]

StringToValue(s) == StringToValueFrom(s, 0)

\* `((f + 1000.0) * 1000.0) as u32` of to_dna: an f32 sum, an f32 product, and
\* the cast, which truncates toward zero and saturates (negative gives 0)
GeneToValue(g) ==
    LET sum == Round24(g + Thousand * Unit)
        s == ExcessBits(Abs(sum))
        m == sum \div Pow2(s)
        \* sum * 1000 / Unit = m * 125 * 2^(s - 12); rounding is scale-free
        p == Round24(m * (Thousand \div 8))
    IN  IF sum <= 0 THEN 0 ELSE p \div Pow2(12 - s)

\* `(v as f32 / 1000.0) - 1000.0` of from_dna: the cast, an f32 quotient and an
\* f32 difference, each rounded
ValueToGene(v) ==
    LET w == Round24(v)
        k == Binade(w, Thousand)
        \* the quotient's 24-bit significand, in units of 2^(k - 23)
        mq == RNE(w * Pow2(20 - k), Thousand \div 8)
        \* k < 8: the quotient is finer than the unit; the difference has
        \* magnitude in (744, 1000], an f32 grid of 2^-14, so it is rounded
        \* there directly from the exact value
        d == Pow2(9 - k)
        qi == mq \div d
        qr == mq % d
        a == Thousand * (Unit \div 2)
        mag == IF 2 * qr < d THEN a - qi
               ELSE IF 2 * qr > d THEN a - qi - 1
               ELSE IF (a - qi) % 2 = 0 THEN a - qi ELSE a - qi - 1
    IN  IF w = 0 THEN -(Thousand * Unit)
        ELSE IF k >= 8 THEN Round24(mq * Pow2(k - 8) - Thousand * Unit)
        ELSE -(2 * mag)

\* Chromosome::to_dna: each gene's token followed by '-', the last '-' popped
\* (pop on the empty string does nothing)
RECURSIVE ToDnaFold(_)
ToDnaFold(gs) ==
    IF gs = <<>> THEN <<>>
    ELSE ValueToString(GeneToValue(Head(gs))) \o <<ChDash>> \o ToDnaFold(Tail(gs))

ToDnaString(gs) ==
    LET r == ToDnaFold(gs)
    IN  IF r = <<>> THEN r ELSE SubSeq(r, 1, Len(r) - 1)

\* str::split('-'): the tokens between the dashes; the empty string gives one
\* empty token
RECURSIVE SplitFrom(_, _)
SplitFrom(s, cur) ==
    IF s = <<>> THEN <<cur>>
    ELSE IF Head(s) = ChDash THEN <<cur>> \o SplitFrom(Tail(s), <<>>)
    ELSE SplitFrom(Tail(s), Append(cur, Head(s)))

SplitDash(s) == SplitFrom(s, <<>>)

\* Chromosome::from_dna: every token through string_to_value; the first panic
\* aborts the whole call
FromDnaResult(s) ==
    LET toks == SplitDash(s)
        vals == [i \in 1..Len(toks) |-> StringToValue(toks[i])]
    IN  IF \E i \in 1..Len(toks) : vals[i].st = "panic"
        THEN [st |-> "panic", genes |-> <<>>]
        ELSE [st |-> "ok", genes |-> [i \in 1..Len(toks) |-> ValueToGene(vals[i].v)]]

----------------------------------------------------------------------------
(* The codec's operations as steps: a chromosome is encoded and the text     *)
(* decoded again, or a text from outside is decoded.                         *)

\* the genes the model encodes: multiples of 0.001 (as f32 these are the
\* multiples of 0.125: 0, 1, -1, 0.125, the -100 and 100 of the repository's
\* tests, -1000), a gene below -1000, and two genes that are no multiple of
\* 0.001: 24 * 2^-15 and the f32 nearest to -487.999
GeneSamples ==
    { 0, Unit, -Unit, Unit \div 8, -(100 * Unit), 100 * Unit,
      -(Thousand * Unit), -(1001 * Unit), 24, -15990751 }

\* the characters of the texts decoded: the ends of a-z and A-Z, the dash,
\* and the characters just outside both ranges ('@', '[', '`', '{')
TextChars == { ChA, ChZ, ChUpA, ChUpZ, ChDash, ChUpA - 1, ChUpZ + 1, ChA - 1, ChZ + 1 }

SeqsUpTo(S, n) == UNION { [1..k -> S] : k \in 0..n }

\* the codec at rest, for the specifications of the other components
DnaOff ==
    /\ genes = <<>>
    /\ dna = <<>>
    /\ decoded = <<>>
    /\ dnaPc = "off"
    /\ dnaSrc = "off"

\* the network at rest
NetOff ==
    /\ topology = <<>>
    /\ flatIn = <<>>
    /\ network = <<>>
    /\ netPc = "off"
    /\ netErr = "none"
    /\ flatOut = <<>>
    /\ dataDone = FALSE
    /\ inputs = <<>>
    /\ outputs = <<>>
    /\ propPc = "idle"

\* the genetic algorithm at rest
\* the simulation's networks at rest
SimOff == brains = <<>>

\* the u32 conversions at rest
ValOff ==
    /\ token = <<>>
    /\ word = [hi |-> 0, lo |-> 0]
    /\ overflowChecks = FALSE
    /\ valText = <<>>
    /\ valOut = [st |-> "none", v |-> [hi |-> 0, lo |-> 0]]
    /\ valPc = "off"

GaOff ==
    /\ chance = 0
    /\ coefficient = 0
    /\ seed = <<>>
    /\ rngPos = 0
    /\ population = <<>>
    /\ gaPc = "off"
    /\ slot = 0
    /\ parentA = <<>>
    /\ parentB = <<>>
    /\ pickA = 0
    /\ pickB = 0
    /\ crossed = <<>>
    /\ child = <<>>
    /\ offspring = <<>>
    /\ drawLog = <<>>
    /\ generation = 0
    /\ run = 0
    /\ history = <<>>

InitDna ==
    /\ NetOff
    /\ GaOff
    /\ ValOff
    /\ SimOff
    /\ decoded = <<>>
    /\ \/ /\ dnaSrc = "genes"
          /\ dnaPc = "genes"
          /\ genes \in SeqsUpTo(GeneSamples, MaxGenes)
          /\ dna = <<>>
       \/ /\ dnaSrc = "text"
          /\ dnaPc = "text"
          /\ genes = <<>>
          /\ dna \in SeqsUpTo(TextChars, MaxText)

\* chromosome.to_dna()
ToDna ==
    /\ dnaPc = "genes"
    /\ dna' = ToDnaString(genes)
    /\ dnaPc' = "encoded"
    /\ UNCHANGED <<genes, decoded, dnaSrc>>
    /\ UNCHANGED <<netVars, gaVars, valVars, brains>>

\* Chromosome::from_dna(dna)
FromDna ==
    /\ dnaPc \in {"encoded", "text"}
    /\ LET r == FromDnaResult(dna)
       IN  /\ decoded' = r.genes
           /\ dnaPc' = IF r.st = "panic" THEN "panicked" ELSE "decoded"
    /\ UNCHANGED <<genes, dna, dnaSrc>>
    /\ UNCHANGED <<netVars, gaVars, valVars, brains>>

NextDna == ToDna \/ FromDna

SpecDna == InitDna /\ [][NextDna]_vars

----------------------------------------------------------------------------
(* value_to_string and string_to_value over the whole of u32.  A u32 is held *)
(* as its two 16-bit halves [hi, lo], so that no step leaves the integers    *)
(* of the checker.  An overflowing `v *= 52` or `v += ...` panics in a build *)
(* with overflow checks and wraps modulo 2^32 in one without.                *)

Half == 2^16

\* x / 52 and x % 52 of value_to_string
DivMod52(x) ==
    LET r == (x.hi % Radix) * Half + x.lo
    IN  [q |-> [hi |-> x.hi \div Radix, lo |-> r \div Radix], m |-> r % Radix]

\* Chromosome::value_to_string on a u32
RECURSIVE ValueToString32(_)
ValueToString32(x) ==
    LET d == DivMod52(x)
    IN  IF d.q.hi = 0 /\ d.q.lo = 0 THEN <<DigitChar(d.m)>>
        ELSE ValueToString32(d.q) \o <<DigitChar(d.m)>>

\* v *= 52: the product modulo 2^32, and whether it passed u32::MAX
Mul52(v) ==
    LET lo == v.lo * Radix
        hi == v.hi * Radix + lo \div Half
    IN  [v |-> [hi |-> hi % Half, lo |-> lo % Half], over |-> hi >= Half]

\* v += d: the sum modulo 2^32, and whether it passed u32::MAX
AddU32(v, d) ==
    LET lo == v.lo + d
        hi == v.hi + lo \div Half
    IN  [v |-> [hi |-> hi % Half, lo |-> lo % Half], over |-> hi >= Half]

\* Chromosome::string_to_value on a token of any length: per character the
\* multiplication, then the test of the character, then the addition
RECURSIVE StringToValue32From(_, _, _)
StringToValue32From(s, v, checked) ==
    IF s = <<>> THEN [st |-> "ok", v |-> v]
    ELSE LET c == Head(s)
             m == Mul52(v)
             a == AddU32(m.v, IF IsUpper(c) THEN 26 + (c - ChUpA) ELSE c - ChA)
         IN  IF checked /\ m.over THEN [st |-> "overflow", v |-> v]
             ELSE IF ~IsUpper(c) /\ ~IsLower(c) THEN [st |-> "panic", v |-> v]
             ELSE IF checked /\ a.over THEN [st |-> "overflow", v |-> v]
             ELSE StringToValue32From(Tail(s), a.v, checked)

StringToValue32(s, checked) == StringToValue32From(s, [hi |-> 0, lo |-> 0], checked)

\* the letters of the sample tokens: a (0), l (11), m (12), Z (51)
TokenLetters == { ChA, ChA + 11, ChA + 12, ChUpZ }

\* the halves of the sample words
WordHalves == { 0, 1, Radix - 1, Radix, Half - 1 }

InitValue ==
    /\ DnaOff
    /\ NetOff
    /\ GaOff
    /\ overflowChecks \in BOOLEAN
    /\ \/ /\ valPc = "token"
          /\ token \in SeqsUpTo(TokenLetters, MaxToken) \ {<<>>}
          /\ word = [hi |-> 0, lo |-> 0]
       \/ /\ valPc = "word"
          /\ token = <<>>
          /\ word \in [hi : WordHalves, lo : WordHalves]
    /\ valText = <<>>
    /\ valOut = [st |-> "none", v |-> [hi |-> 0, lo |-> 0]]
    /\ SimOff

\* string_to_value(token)
Decode ==
    /\ valPc = "token"
    /\ valOut' = StringToValue32(token, overflowChecks)
    /\ valPc' = "decoded"
    /\ UNCHANGED <<token, word, overflowChecks, valText>>
    /\ UNCHANGED <<dnaVars, netVars, gaVars, brains>>

\* value_to_string(word)
Encode ==
    /\ valPc = "word"
    /\ valText' = ValueToString32(word)
    /\ valPc' = "encoded"
    /\ UNCHANGED <<token, word, overflowChecks, valOut>>
    /\ UNCHANGED <<dnaVars, netVars, gaVars, brains>>

\* string_to_value(value_to_string(word))
DecodeEncoded ==
    /\ valPc = "encoded"
    /\ valOut' = StringToValue32(valText, overflowChecks)
    /\ valPc' = "returned"
    /\ UNCHANGED <<token, word, overflowChecks, valText>>
    /\ UNCHANGED <<dnaVars, netVars, gaVars, brains>>

NextValue == Decode \/ Encode \/ DecodeEncoded

SpecValue == InitValue /\ [][NextValue]_vars

----------------------------------------------------------------------------
(* Network, Layer, Neuron: neural-network/src/lib.rs.  Biases, weights and   *)
(* inputs are whole f32 numbers, held as integers (sums and products of     *)
(* small whole numbers are exact in f32).                                    *)

\* the values a bias, a weight or an input takes
NetValues == {-1, 1}

\* Neuron::from_data: one bias, then output_size weights; "out of data" when
\* the iterator ends before that
NeuronFromData(outputSize, data) ==
    IF Len(data) < outputSize + 1
    THEN [ok |-> FALSE, neuron |-> <<>>, rest |-> <<>>]
    ELSE [ok |-> TRUE,
          neuron |-> [bias |-> data[1],
                      weights |-> SubSeq(data, 2, outputSize + 1)],
          rest |-> SubSeq(data, outputSize + 2, Len(data))]

\* Layer::from_data: output_neurons neurons, each from the shared iterator
RECURSIVE LayerFromData(_, _, _)
LayerFromData(inputNeurons, outputNeurons, data) ==
    IF outputNeurons = 0 THEN [ok |-> TRUE, neurons |-> <<>>, rest |-> data]
    ELSE LET n == NeuronFromData(inputNeurons, data)
             more == LayerFromData(inputNeurons, outputNeurons - 1, n.rest)
         IN  IF ~n.ok THEN [ok |-> FALSE, neurons |-> <<>>, rest |-> <<>>]
             ELSE IF ~more.ok THEN more
             ELSE [ok |-> TRUE, neurons |-> <<n.neuron>> \o more.neurons,
                   rest |-> more.rest]

\* layers.windows(2).map(Layer::from_data).collect() of Network::from_data
RECURSIVE LayersFromData(_, _)
LayersFromData(widths, data) ==
    IF Len(widths) < 2 THEN [ok |-> TRUE, layers |-> <<>>, rest |-> data]
    ELSE LET l == LayerFromData(widths[1], widths[2], data)
             more == LayersFromData(Tail(widths), l.rest)
         IN  IF ~l.ok THEN [ok |-> FALSE, layers |-> <<>>, rest |-> <<>>]
             ELSE IF ~more.ok THEN more
             ELSE [ok |-> TRUE, layers |-> <<l.neurons>> \o more.layers,
                   rest |-> more.rest]

\* Network::from_data without the check for left-over values
NetworkFromDataNoLeftoverCheck(widths, data) ==
    LET r == LayersFromData(widths, data)
    IN  IF ~(Len(widths) > 1) THEN [err |-> "layers", layers |-> <<>>]
        ELSE IF ~r.ok THEN [err |-> "out of data", layers |-> <<>>]
        ELSE [err |-> "none", layers |-> r.layers]

\* Network::from_data: the assert on the topology, the layers, and the panic
\* when a value is left in the iterator
NetworkFromData(widths, data) ==
    LET r == LayersFromData(widths, data)
    IN  IF ~(Len(widths) > 1) THEN [err |-> "layers", layers |-> <<>>]
        ELSE IF ~r.ok THEN [err |-> "out of data", layers |-> <<>>]
        ELSE IF r.rest # <<>> THEN [err |-> "something is wrong", layers |-> <<>>]
        ELSE [err |-> "none", layers |-> r.layers]

\* data() with each neuron's weights chained before its bias
RECURSIVE NetworkDataWeightsFirst(_)
NetworkDataWeightsFirst(layers) ==
    IF layers = <<>> THEN <<>>
    ELSE IF Head(layers) = <<>> THEN NetworkDataWeightsFirst(Tail(layers))
    ELSE LET n == Head(Head(layers))
         IN  n.weights \o <<n.bias>>
                \o NetworkDataWeightsFirst(<<Tail(Head(layers))>> \o Tail(layers))

\* Network::data: layer by layer, neuron by neuron, the bias then the weights
\* data() without the once(&neuron.bias): the weights only
RECURSIVE NetworkDataNoBias(_)
NetworkDataNoBias(layers) ==
    IF layers = <<>> THEN <<>>
    ELSE IF Head(layers) = <<>> THEN NetworkDataNoBias(Tail(layers))
    ELSE Head(Head(layers)).weights
            \o NetworkDataNoBias(<<Tail(Head(layers))>> \o Tail(layers))

RECURSIVE NetworkData(_)
NetworkData(layers) ==
    IF layers = <<>> THEN <<>>
    ELSE IF Head(layers) = <<>> THEN NetworkData(Tail(layers))
    ELSE LET n == Head(Head(layers))
         IN  <<n.bias>> \o n.weights
                \o NetworkData(<<Tail(Head(layers))>> \o Tail(layers))

\* the arity test with >= for ==
ArityOkAtLeast(ins, weights) == Len(ins) >= Len(weights)

\* assert_eq!(inputs.len(), ...weights.len()) of Layer::propagate and
\* Neuron::propagate
ArityOk(ins, weights) == Len(ins) = Len(weights)

\* inputs.iter().zip(&self.weights).map(|(i, w)| i * w).sum()
RECURSIVE WeightedSum(_, _)
WeightedSum(ins, weights) ==
    IF ins = <<>> \/ weights = <<>> THEN 0
    ELSE Head(ins) * Head(weights) + WeightedSum(Tail(ins), Tail(weights))

Max(a, b) == IF a >= b THEN a ELSE b

\* Neuron::propagate: the assert, then ReLU of bias + weighted inputs
NeuronPropagate(neuron, ins) ==
    IF ~ArityOk(ins, neuron.weights) THEN [st |-> "arity", out |-> 0]
    ELSE [st |-> "ok", out |-> Max(neuron.bias + WeightedSum(ins, neuron.weights), 0)]

\* Layer::propagate: neurons[0] is indexed for the assert (a panic of its own
\* when the layer has no neuron), then every neuron propagates
LayerPropagate(neurons, ins) ==
    IF neurons = <<>> THEN [st |-> "index", out |-> <<>>]
    ELSE IF ~ArityOk(ins, neurons[1].weights) THEN [st |-> "arity", out |-> <<>>]
    ELSE LET rs == [i \in 1..Len(neurons) |-> NeuronPropagate(neurons[i], ins)]
         IN  IF \E i \in 1..Len(neurons) : rs[i].st # "ok"
             THEN [st |-> "arity", out |-> <<>>]
             ELSE [st |-> "ok", out |-> [i \in 1..Len(neurons) |-> rs[i].out]]

\* Network::propagate: the inputs folded through the layers in order
RECURSIVE NetworkPropagate(_, _)
NetworkPropagate(layers, ins) ==
    IF layers = <<>> THEN [st |-> "ok", out |-> ins]
    ELSE LET r == LayerPropagate(Head(layers), ins)
         IN  IF r.st # "ok" THEN r ELSE NetworkPropagate(Tail(layers), r.out)

InitNet ==
    /\ DnaOff
    /\ GaOff
    /\ ValOff
    /\ SimOff
    /\ topology \in SeqsUpTo(0..MaxWidth, MaxLayers)
    /\ flatIn \in SeqsUpTo(NetValues, MaxData)
    /\ network = <<>>
    /\ netPc = "start"
    /\ netErr = "none"
    /\ flatOut = <<>>
    /\ dataDone = FALSE
    /\ inputs = <<>>
    /\ outputs = <<>>
    /\ propPc = "idle"

\* Network::from_data(topology, flatIn)
FromData ==
    /\ netPc = "start"
    /\ LET r == NetworkFromData(topology, flatIn)
       IN  /\ network' = r.layers
           /\ netErr' = r.err
           /\ netPc' = IF r.err = "none" THEN "built" ELSE "failed"
    /\ UNCHANGED <<topology, flatIn, flatOut, dataDone, inputs, outputs, propPc>>
    /\ UNCHANGED <<dnaVars, gaVars, valVars, brains>>

\* network.data().collect()
Data ==
    /\ netPc = "built"
    /\ propPc \in {"idle", "ok"}
    /\ ~dataDone
    /\ flatOut' = NetworkData(network)
    /\ dataDone' = TRUE
    /\ UNCHANGED <<topology, flatIn, network, netPc, netErr, inputs, outputs, propPc>>
    /\ UNCHANGED <<dnaVars, gaVars, valVars, brains>>

\* network.propagate(inputs), for any input vector
Propagate ==
    /\ netPc = "built"
    /\ propPc = "idle"
    /\ \E ins \in SeqsUpTo(NetValues, MaxWidth + 1) :
          LET r == NetworkPropagate(network, ins)
          IN  /\ inputs' = ins
              /\ outputs' = r.out
              /\ propPc' = r.st
    /\ UNCHANGED <<topology, flatIn, network, netPc, netErr, flatOut, dataDone>>
    /\ UNCHANGED <<dnaVars, gaVars, valVars, brains>>

NextNet == FromData \/ Data \/ Propagate

SpecNet == InitNet /\ [][NextNet]_vars

----------------------------------------------------------------------------
(* The random stream.  Every generator handed to evolve is a deterministic   *)
(* function of its seed; the model's stream is any sequence of period        *)
(* TapeLen over the values 0 .. RngRes - 1, a value r standing for the       *)
(* fraction r / RngRes of the generator's range.                             *)

Seeds == [1..TapeLen -> 0..(RngRes - 1)]

\* the value the stream yields at position pos
Raw(tape, pos) == tape[(pos % TapeLen) + 1]

\* rng.gen_bool(p), p = num / den: true without a draw when p = 1, otherwise
\* one draw, true when it falls below p
GenBool(tape, pos, num, den) ==
    IF num = den THEN [val |-> TRUE, pos |-> pos]
    ELSE [val |-> Raw(tape, pos) * den < num * RngRes, pos |-> pos + 1]

----------------------------------------------------------------------------
(* Selection, crossover, mutation *)

\* the sum of the fitness of the first n individuals
RECURSIVE FitnessSum(_, _)
FitnessSum(pop, n) == IF n = 0 THEN 0 ELSE pop[n].fitness + FitnessSum(pop, n - 1)

\* WeightedIndex::sample searching with < in place of <=
ChosenIndexStrict(pop, num, den) ==
    Cardinality({ i \in 1..(Len(pop) - 1) : FitnessSum(pop, i) * den < num }) + 1

\* WeightedIndex::sample for the value num / den drawn from [0, total): the
\* number of cumulative weights (the last left out) not above it, from 1
ChosenIndex(pop, num, den) ==
    Cardinality({ i \in 1..(Len(pop) - 1) : FitnessSum(pop, i) * den <= num }) + 1

\* select falling back to a uniform choice when no weight is above 0
SelectUniformOnZero(tape, pos, pop) ==
    LET n == Len(pop)
        total == FitnessSum(pop, n)
    IN  IF n = 0 \/ (\E i \in 1..n : pop[i].fitness < 0)
        THEN [st |-> "panic", idx |-> 0, pos |-> pos]
        ELSE IF total = 0
        THEN [st |-> "ok", idx |-> (Raw(tape, pos) * n) \div RngRes + 1, pos |-> pos + 1]
        ELSE [st |-> "ok", idx |-> ChosenIndex(pop, Raw(tape, pos) * total, RngRes),
              pos |-> pos + 1]

\* RouletteWheelSelection::select: choose_weighted by fitness, expect().
\* choose_weighted fails on no item, on a negative weight and on a zero total;
\* otherwise it draws one value x in [0, total) and returns the first
\* individual whose cumulative fitness exceeds x.
Select(tape, pos, pop) ==
    LET n == Len(pop)
        total == FitnessSum(pop, n)
    IN  IF n = 0 \/ (\E i \in 1..n : pop[i].fitness < 0) \/ total = 0
        THEN [st |-> "panic", idx |-> 0, pos |-> pos]
        ELSE [st |-> "ok", idx |-> ChosenIndex(pop, Raw(tape, pos) * total, RngRes),
              pos |-> pos + 1]

\* UniformCrossover::crossover: equal lengths asserted, then per gene index one
\* gen_bool(0.5) picks parent A's gene or parent B's
RECURSIVE CrossGenes(_, _, _, _)
CrossGenes(tape, pos, a, b) ==
    IF a = <<>> THEN [genes |-> <<>>, pos |-> pos]
    ELSE LET coin == GenBool(tape, pos, 1, 2)
             more == CrossGenes(tape, coin.pos, Tail(a), Tail(b))
         IN  [genes |-> <<IF coin.val THEN Head(a) ELSE Head(b)>> \o more.genes,
              pos |-> more.pos]

\* crossover over the zipped parents with no check of their lengths: the
\* child is as long as the shorter parent
CrossoverTruncating(tape, pos, a, b) ==
    LET n == IF Len(a) <= Len(b) THEN Len(a) ELSE Len(b)
        r == CrossGenes(tape, pos, SubSeq(a, 1, n), SubSeq(b, 1, n))
    IN  [st |-> "ok", genes |-> r.genes, pos |-> r.pos]

Crossover(tape, pos, a, b) ==
    IF Len(a) # Len(b) THEN [st |-> "panic", genes |-> <<>>, pos |-> pos]
    ELSE LET r == CrossGenes(tape, pos, a, b)
         IN  [st |-> "ok", genes |-> r.genes, pos |-> r.pos]

\* sign * coefficient * rng.gen::<f32>(): the draw r stands for r / RngRes
Perturbation(negative, coef, raw) ==
    LET mag == Round24(RNE(coef * raw, RngRes))
    IN  IF negative THEN -mag ELSE mag

\* the loop body of mutate with the decision negated: !gen_bool(chance)
MutateGeneNegated(tape, pos, gene, ch, coef) ==
    LET sign == GenBool(tape, pos, 1, 2)
        hit == GenBool(tape, sign.pos, ch, Unit)
    IN  IF ~hit.val
        THEN [gene |-> Round24(gene + Perturbation(sign.val, coef, Raw(tape, hit.pos))),
              pos |-> hit.pos + 1]
        ELSE [gene |-> gene, pos |-> hit.pos]

\* the loop body of GaussianMutation::mutate for one gene: the sign draw, the
\* chance draw and, when mutating, the f32 draw added to the gene
MutateGene(tape, pos, gene, ch, coef) ==
    LET sign == GenBool(tape, pos, 1, 2)
        hit == GenBool(tape, sign.pos, ch, Unit)
    IN  IF hit.val
        THEN [gene |-> Round24(gene + Perturbation(sign.val, coef, Raw(tape, hit.pos))),
              pos |-> hit.pos + 1]
        ELSE [gene |-> gene, pos |-> hit.pos]

\* GaussianMutation::mutate: every gene in order
RECURSIVE MutateGenes(_, _, _, _, _)
MutateGenes(tape, pos, gs, ch, coef) ==
    IF gs = <<>> THEN [genes |-> <<>>, pos |-> pos]
    ELSE LET g == MutateGene(tape, pos, Head(gs), ch, coef)
             more == MutateGenes(tape, g.pos, Tail(gs), ch, coef)
         IN  [genes |-> <<g.gene>> \o more.genes, pos |-> more.pos]

\* NizmIndividual::create: the chromosome and a fitness of 0.0
Create(chromosome) == [chromosome |-> chromosome, fitness |-> 0]

----------------------------------------------------------------------------
(* GeneticAlgorithm::evolve, one step of the closure at a time, and the      *)
(* caller that evaluates fitness between two calls                           *)

\* the order of the closure's steps
StepOrderSelectBFirst == <<"selectB", "selectA", "crossover", "mutate", "create">>

StepOrder == <<"selectA", "selectB", "crossover", "mutate", "create">>

StepAfter(step) ==
    LET i == CHOOSE k \in 1..Len(StepOrder) : StepOrder[k] = step
    IN  StepOrder[i + 1]

\* (0..population.len()) with the last index left out
SlotCountShort(pop) == Len(pop) - 1

\* the range (0..population.len()) the closure is mapped over
SlotCount(pop) == Len(pop)

\* the draws at the positions from .. to - 1, made by `step` for slot s
Draws(s, step, from, to) ==
    [i \in 1..(to - from) |-> [slot |-> s, step |-> step, pos |-> from + i - 1]]

\* gene j of individual i of an initial population: all different
GeneOf(i, j) == i * Unit + j * (Unit \div 8)

\* how the caller's fitness falls on the individuals: nobody scores, all
\* score alike, the first scores nothing, the last scores nothing
FitnessPatterns == {"zero", "equal", "rising", "falling"}

FitnessOf(pattern, i, n) ==
    CASE pattern = "zero" -> 0
      [] pattern = "equal" -> 1
      [] pattern = "rising" -> i - 1
      [] OTHER -> n - i

\* the initial populations: n individuals with chromosomes of len genes; in a
\* ragged one the last chromosome is one gene shorter
InitialPopulation(n, len, ragged, pattern) ==
    [i \in 1..n |->
        [chromosome |-> [j \in 1..(IF ragged /\ i = n /\ len > 0 THEN len - 1 ELSE len)
                            |-> GeneOf(i, j)],
         fitness |-> FitnessOf(pattern, i, n)]]

InitGa ==
    /\ DnaOff
    /\ NetOff
    /\ ValOff
    /\ SimOff
    /\ chance \in {0, Unit \div 2, Unit}
    /\ coefficient \in {0, Unit \div 2}
    /\ seed \in Seeds
    /\ rngPos = 0
    /\ \E n \in 0..MaxPop, len \in 0..MaxLen, ragged \in BOOLEAN, pattern \in FitnessPatterns :
          population = InitialPopulation(n, len, ragged, pattern)
    /\ gaPc = "idle"
    /\ slot = 0
    /\ parentA = <<>>
    /\ parentB = <<>>
    /\ pickA = 0
    /\ pickB = 0
    /\ crossed = <<>>
    /\ child = <<>>
    /\ offspring = <<>>
    /\ drawLog = <<>>
    /\ generation = 1
    /\ run = 1
    /\ history = <<>>

gaFrame == <<chance, coefficient, seed, population, generation, run>>

\* evolve is entered: the assert on the population, then the first slot
StartEvolve ==
    /\ gaPc = "idle"
    /\ gaPc' = IF population = <<>> THEN "panic"
               ELSE IF SlotCount(population) <= 0 THEN "done"
               ELSE StepOrder[1]
    /\ slot' = 0
    /\ offspring' = <<>>
    /\ drawLog' = <<>>
    /\ UNCHANGED <<parentA, parentB, pickA, pickB, crossed, child, rngPos, history>>
    /\ UNCHANGED gaFrame
    /\ UNCHANGED <<dnaVars, netVars, valVars, brains>>

\* let _parent_a = self.selection_method.select(rng, population).chromosome()
SelectA ==
    /\ gaPc = "selectA"
    /\ LET r == Select(seed, rngPos, population)
       IN  /\ gaPc' = IF r.st = "ok" THEN StepAfter("selectA") ELSE "panic"
           /\ pickA' = IF r.st = "ok" THEN r.idx ELSE pickA
           /\ parentA' = IF r.st = "ok" THEN population[r.idx].chromosome ELSE parentA
           /\ rngPos' = r.pos
           /\ drawLog' = drawLog \o Draws(slot, "selectA", rngPos, r.pos)
    /\ UNCHANGED <<slot, parentB, pickB, crossed, child, offspring, history>>
    /\ UNCHANGED gaFrame
    /\ UNCHANGED <<dnaVars, netVars, valVars, brains>>

\* let _parent_b = self.selection_method.select(rng, population).chromosome()
SelectB ==
    /\ gaPc = "selectB"
    /\ LET r == Select(seed, rngPos, population)
       IN  /\ gaPc' = IF r.st = "ok" THEN StepAfter("selectB") ELSE "panic"
           /\ pickB' = IF r.st = "ok" THEN r.idx ELSE pickB
           /\ parentB' = IF r.st = "ok" THEN population[r.idx].chromosome ELSE parentB
           /\ rngPos' = r.pos
           /\ drawLog' = drawLog \o Draws(slot, "selectB", rngPos, r.pos)
    /\ UNCHANGED <<slot, parentA, pickA, crossed, child, offspring, history>>
    /\ UNCHANGED gaFrame
    /\ UNCHANGED <<dnaVars, netVars, valVars, brains>>

\* let mut child = self.crossover_method.crossover(rng, _parent_a, _parent_b)
CrossoverStep ==
    /\ gaPc = "crossover"
    /\ LET r == Crossover(seed, rngPos, parentA, parentB)
       IN  /\ gaPc' = IF r.st = "ok" THEN StepAfter("crossover") ELSE "panic"
           /\ crossed' = r.genes
           /\ child' = r.genes
           /\ rngPos' = r.pos
           /\ drawLog' = drawLog \o Draws(slot, "crossover", rngPos, r.pos)
    /\ UNCHANGED <<slot, parentA, parentB, pickA, pickB, offspring, history>>
    /\ UNCHANGED gaFrame
    /\ UNCHANGED <<dnaVars, netVars, valVars, brains>>

\* mutate drawing from thread_rng() instead of the rng handed in
MutateThreadRng ==
    /\ gaPc = "mutate"
    /\ \E ambient \in Seeds :
          child' = MutateGenes(ambient, 0, child, chance, coefficient).genes
    /\ gaPc' = StepAfter("mutate")
    /\ UNCHANGED <<slot, parentA, parentB, pickA, pickB, crossed, offspring, history, rngPos, drawLog>>
    /\ UNCHANGED gaFrame
    /\ UNCHANGED <<dnaVars, netVars, valVars, brains>>

\* self.mutation_method.mutate(rng, &mut child)
Mutate ==
    /\ gaPc = "mutate"
    /\ LET r == MutateGenes(seed, rngPos, child, chance, coefficient)
       IN  /\ child' = r.genes
           /\ rngPos' = r.pos
           /\ drawLog' = drawLog \o Draws(slot, "mutate", rngPos, r.pos)
    /\ gaPc' = StepAfter("mutate")
    /\ UNCHANGED <<slot, parentA, parentB, pickA, pickB, crossed, offspring, history>>
    /\ UNCHANGED gaFrame
    /\ UNCHANGED <<dnaVars, netVars, valVars, brains>>

\* create with the new individual also written over the input's individual
\* of the same slot
CreateIndividualInPlace ==
    /\ gaPc = "create"
    /\ offspring' = Append(offspring, Create(child))
    /\ population' = [population EXCEPT ![slot + 1] = Create(child)]
    /\ slot' = slot + 1
    /\ gaPc' = IF slot + 1 < SlotCount(population) THEN StepOrder[1] ELSE "done"
    /\ history' = IF run = 1 /\ ~(slot + 1 < SlotCount(population))
                  THEN Append(history, [input |-> population,
                                        output |-> Append(offspring, Create(child)),
                                        pos |-> rngPos])
                  ELSE history
    /\ UNCHANGED <<parentA, parentB, pickA, pickB, crossed, child, rngPos, drawLog>>
    /\ UNCHANGED <<chance, coefficient, seed, generation, run>>
    /\ UNCHANGED <<dnaVars, netVars, valVars, brains>>

\* I::create(child), collected; the next slot, or the end of evolve
CreateIndividual ==
    /\ gaPc = "create"
    /\ offspring' = Append(offspring, Create(child))
    /\ slot' = slot + 1
    /\ gaPc' = IF slot + 1 < SlotCount(population) THEN StepOrder[1] ELSE "done"
    /\ history' = IF run = 1 /\ ~(slot + 1 < SlotCount(population))
                  THEN Append(history, [input |-> population,
                                        output |-> Append(offspring, Create(child)),
                                        pos |-> rngPos])
                  ELSE history
    /\ UNCHANGED <<parentA, parentB, pickA, pickB, crossed, child, rngPos, drawLog>>
    /\ UNCHANGED gaFrame
    /\ UNCHANGED <<dnaVars, netVars, valVars, brains>>

\* the caller between two calls: the offspring, with the fitness the caller
\* measured, is the next call's population
Evaluate ==
    /\ gaPc = "done"
    /\ run = 1
    /\ generation < MaxGenerations
    /\ \E pattern \in FitnessPatterns :
          population' = [i \in 1..Len(offspring) |->
              [chromosome |-> offspring[i].chromosome,
               fitness |-> FitnessOf(pattern, i, Len(offspring))]]
    /\ generation' = generation + 1
    /\ gaPc' = "idle"
    /\ UNCHANGED <<chance, coefficient, seed, rngPos, slot, parentA, parentB, pickA, pickB, crossed,
                   child, offspring, drawLog, run, history>>
    /\ UNCHANGED <<dnaVars, netVars, valVars, brains>>

\* the caller between two calls of the repeated session: the fitness measured
\* the first time
EvaluateAgain ==
    /\ gaPc = "done"
    /\ run = 2
    /\ generation < Len(history)
    /\ Len(history[generation + 1].input) = Len(offspring)
    /\ population' = [i \in 1..Len(offspring) |->
              [chromosome |-> offspring[i].chromosome,
               fitness |-> history[generation + 1].input[i].fitness]]
    /\ generation' = generation + 1
    /\ gaPc' = "idle"
    /\ UNCHANGED <<chance, coefficient, seed, rngPos, slot, parentA, parentB, pickA, pickB, crossed,
                   child, offspring, drawLog, run, history>>
    /\ UNCHANGED <<dnaVars, netVars, valVars, brains>>

\* a finished session of MaxGenerations calls is run once more: the same
\* stream from its start, the same first population, the same configuration
Replay ==
    /\ gaPc = "done"
    /\ run = 1
    /\ generation = MaxGenerations
    /\ run' = 2
    /\ population' = history[1].input
    /\ rngPos' = 0
    /\ generation' = 1
    /\ gaPc' = "idle"
    /\ drawLog' = <<>>
    /\ UNCHANGED <<chance, coefficient, seed, slot, parentA, parentB, pickA, pickB, crossed, child,
                   offspring, history>>
    /\ UNCHANGED <<dnaVars, netVars, valVars, brains>>

\* select called on its own, as the selection test calls it
SelectOnce ==
    /\ gaPc = "idle"
    /\ LET r == Select(seed, rngPos, population)
       IN  /\ gaPc' = IF r.st = "ok" THEN "picked" ELSE "nopick"
           /\ pickA' = r.idx
           /\ parentA' = IF r.st = "ok" THEN population[r.idx].chromosome ELSE parentA
           /\ rngPos' = r.pos
    /\ UNCHANGED <<slot, parentB, pickB, crossed, child, offspring, drawLog, history>>
    /\ UNCHANGED gaFrame
    /\ UNCHANGED <<dnaVars, netVars, valVars, brains>>

NextGa ==
    \/ StartEvolve
    \/ SelectA
    \/ SelectB
    \/ CrossoverStep
    \/ Mutate
    \/ CreateIndividual
    \/ Evaluate

SpecGa == InitGa /\ [][NextGa]_vars

NextSelect ==
    \/ SelectOnce
    \/ StartEvolve
    \/ SelectA
    \/ SelectB
    \/ CrossoverStep
    \/ Mutate
    \/ CreateIndividual
    \/ Evaluate

SpecSelect == InitGa /\ [][NextSelect]_vars

NextReplay ==
    \/ StartEvolve
    \/ SelectA
    \/ SelectB
    \/ CrossoverStep
    \/ Mutate
    \/ CreateIndividual
    \/ Evaluate
    \/ Replay
    \/ EvaluateAgain

\* the sessions repeated: those of GaussianMutation::new(0.5, 0.5), the
\* mutation of the repository's test of evolve
InitReplay == InitGa /\ chance = Unit \div 2 /\ coefficient = Unit \div 2

SpecReplay == InitReplay /\ [][NextReplay]_vars

----------------------------------------------------------------------------
(* The simulation's evolution system, sim/src/main.rs: the survivors are the  *)
(* data() of the brains with the fitness measured, evolve makes the          *)
(* offspring, and from_data makes of every child the brain of the next round *)

\* GaussianMutation::new(0.3, 0.5): the chance, scaled as a gene is
SimChance == (3 * Unit) \div 10

\* the fitness the simulation measures: 0.0 inside the kill zone, above 0
\* outside; nobody outside, everybody outside, the last brain inside
SimPatterns == {"zero", "equal", "falling"}

\* the topologies of the brains
SimTopologies == { t \in SeqsUpTo(0..MaxWidth, MaxLayers) : Len(t) >= 2 }

InitSim ==
    /\ DnaOff
    /\ ValOff
    /\ topology \in SimTopologies
    /\ flatIn = <<>>
    /\ network = <<>>
    /\ netPc = "off"
    /\ netErr = "none"
    /\ flatOut = <<>>
    /\ dataDone = FALSE
    /\ inputs = <<>>
    /\ outputs = <<>>
    /\ propPc = "idle"
    /\ chance = SimChance
    /\ coefficient = Unit \div 2
    /\ seed \in Seeds
    /\ rngPos = 0
    /\ \E n \in 1..MaxPop, len \in 0..MaxLen :
          LET made == [i \in 1..n |->
                          NetworkFromData(topology, [j \in 1..len |-> GeneOf(i, j)])]
          IN  /\ \A i \in 1..n : made[i].err = "none"
              /\ brains = [i \in 1..n |-> made[i].layers]
    /\ population = <<>>
    /\ gaPc = "hydrated"
    /\ slot = 0
    /\ parentA = <<>>
    /\ parentB = <<>>
    /\ pickA = 0
    /\ pickB = 0
    /\ crossed = <<>>
    /\ child = <<>>
    /\ offspring = <<>>
    /\ drawLog = <<>>
    /\ generation = 0
    /\ run = 1
    /\ history = <<>>

\* survivors.push(NizmIndividual { chromosome: brain.network.data().collect(),
\* fitness: ... }) for every brain, and the call of evolve on them
Survive ==
    /\ gaPc = "hydrated"
    /\ generation < MaxGenerations
    /\ \E pattern \in SimPatterns :
          population' = [i \in 1..Len(brains) |->
              [chromosome |-> NetworkData(brains[i]),
               fitness |-> FitnessOf(pattern, i, Len(brains))]]
    /\ generation' = generation + 1
    /\ gaPc' = "idle"
    /\ UNCHANGED <<chance, coefficient, seed, rngPos, slot, parentA, parentB, pickA, pickB,
                   crossed, child, offspring, drawLog, run, history>>
    /\ UNCHANGED <<dnaVars, netVars, valVars, brains>>

\* brain.network = Network::from_data(Nizm::topology(), child.chromosome.clone())
\* for every child, each followed by the two gen_range draws of the new position
Rehydrate ==
    /\ gaPc = "done"
    /\ LET made == [i \in 1..Len(offspring) |->
                       NetworkFromData(topology, offspring[i].chromosome)]
       IN  IF \A i \in 1..Len(offspring) : made[i].err = "none"
           THEN /\ brains' = [i \in 1..Len(offspring) |-> made[i].layers]
                /\ rngPos' = rngPos + 2 * Len(offspring)
                /\ gaPc' = "hydrated"
           ELSE /\ gaPc' = "unhydrated"
                /\ UNCHANGED <<brains, rngPos>>
    /\ UNCHANGED <<chance, coefficient, seed, population, slot, parentA, parentB, pickA,
                   pickB, crossed, child, offspring, drawLog, generation, run, history>>
    /\ UNCHANGED <<dnaVars, netVars, valVars>>

NextSim ==
    \/ Survive
    \/ StartEvolve
    \/ SelectA
    \/ SelectB
    \/ CrossoverStep
    \/ Mutate
    \/ CreateIndividual
    \/ Rehydrate

SpecSim == InitSim /\ [][NextSim]_vars

----------------------------------------------------------------------------
(* Properties of the codec *)

IsLetter(c) == c \in (65..90) \cup (97..122)

\* a gene that is a multiple of 0.001: g / 2^15 = k / 1000 for an integer k,
\* that is 125 * g = 2^12 * k: g is a multiple of 2^12 (of 0.125)
IsMilliMultiple(g) == g % (Unit \div 8) = 0

\* |a - b| <= 0.001: |a - b| * 1000 <= 2^15 on integers
WithinMilli(a, b) == Abs(a - b) <= Unit \div Thousand

GeneToValueRounded(g) ==
    LET sum == Round24(g + Thousand * Unit)
        s == ExcessBits(Abs(sum))
        m == sum \div Pow2(s)
        p == Round24(m * (Thousand \div 8))
    IN  IF sum <= 0 THEN 0 ELSE (p + Pow2(11 - s)) \div Pow2(12 - s)

\* C7: to_dna renders each gene g as the base-52 digits of
\* round((g + 1000.0) * 1000.0), rounded to the nearest integer and not
\* truncated, also for genes that are no multiple of 0.001.
C7_EncodesRounded ==
    (dnaPc = "encoded" /\ Len(genes) >= 1 /\ \A i \in 1..Len(genes) : genes[i] >= -(Thousand * Unit))
    => /\ Len(SplitDash(dna)) = Len(genes)
       /\ \A i \in 1..Len(genes) :
            StringToValue(SplitDash(dna)[i]).v = GeneToValueRounded(genes[i])

\* C8: from_dna panics exactly when some token holds a character outside
\* a-z and A-Z, wherever that character stands (tokens within the value
\* range: up to MaxText characters).
C8_PanicsIffBadCharacter ==
    dnaPc \in {"decoded", "panicked"}
    => ( dnaPc = "panicked"
         <=> \E i \in 1..Len(dna) : dna[i] # ChDash /\ ~IsLetter(dna[i]) )

\* a text whose only offending character is the last one of its second token
\* has been refused
C8_Witness ==
    /\ dnaPc = "panicked"
    /\ dnaSrc = "text"
    /\ Len(dna) = 3
    /\ IsLetter(dna[1])
    /\ dna[2] = ChDash
    /\ ~IsLetter(dna[3]) /\ dna[3] # ChDash

\* the value of a token in base 52, most significant digit first, in three
\* 16-bit parts [top, hi, lo]
RECURSIVE C17_ExactFrom(_, _)
C17_ExactFrom(s, v) ==
    IF s = <<>> THEN v
    ELSE LET c == Head(s)
             lo == v.lo * Radix + (IF IsUpper(c) THEN 26 + (c - ChUpA) ELSE c - ChA)
             hi == v.hi * Radix + lo \div Half
             top == v.top * Radix + hi \div Half
         IN  C17_ExactFrom(Tail(s), [top |-> top, hi |-> hi % Half, lo |-> lo % Half])

C17_Exact(s) == C17_ExactFrom(s, [top |-> 0, hi |-> 0, lo |-> 0])

\* C17: string_to_value returns, for every token of letters, the token's
\* value in base 52, with no overflow and no wrap-around of the u32; and
\* string_to_value(value_to_string(x)) is x for every u32 x.
C17_DecodeExact ==
    /\ valPc = "decoded" =>
          /\ valOut.st = "ok"
          /\ C17_Exact(token).top = 0
          /\ valOut.v = [hi |-> C17_Exact(token).hi, lo |-> C17_Exact(token).lo]
    /\ valPc = "returned" => (valOut.st = "ok" /\ valOut.v = word)

\* C18: the text to_dna makes of n genes is n tokens, none empty, with n - 1
\* dashes between them and none at either end; from_dna returns one gene per
\* token of its text; so the chromosome from_dna makes of that text has n
\* genes again, for n = 0 too.
C18_OneTokenPerGene ==
    /\ (dnaSrc = "genes" /\ dnaPc \in {"encoded", "decoded"}) =>
          /\ genes = <<>> => dna = <<>>
          /\ genes # <<>> =>
                /\ Len(SplitDash(dna)) = Len(genes)
                /\ \A i \in 1..Len(genes) : SplitDash(dna)[i] # <<>>
                /\ Cardinality({ i \in 1..Len(dna) : dna[i] = ChDash }) = Len(genes) - 1
                /\ dna[1] # ChDash
                /\ dna[Len(dna)] # ChDash
    /\ dnaPc = "decoded" => Len(decoded) = Len(SplitDash(dna))
    /\ (dnaSrc = "genes" /\ dnaPc = "decoded") => Len(decoded) = Len(genes)

----------------------------------------------------------------------------
(* Properties of the network *)

\* the parameter count of a topology: out * (in + 1) over consecutive widths
RECURSIVE ParamCount(_)
ParamCount(widths) ==
    IF Len(widths) < 2 THEN 0
    ELSE widths[2] * (widths[1] + 1) + ParamCount(Tail(widths))

\* C4: for a topology of at least 2 widths and a flat sequence of exactly the
\* topology's parameter count, from_data(topology, seq).data() yields seq, in
\* the same order.
C4_NetworkRoundTrip ==
    ( /\ Len(topology) >= 2
      /\ Len(flatIn) = ParamCount(topology)
      /\ netPc # "start" )
    => /\ netPc = "built"
       /\ dataDone => flatOut = flatIn

\* a network of two layers with a two-neuron layer has been rebuilt from 7
\* values, not all equal, and flattened again
C4_Witness ==
    /\ dataDone
    /\ topology = <<1, 2, 1>>
    /\ Len(flatIn) = 7
    /\ flatIn[1] # flatIn[2]
    /\ flatOut = flatIn

\* C5: from_data succeeds exactly when the topology has at least 2 entries and
\* the sequence has exactly the parameter count; a short sequence fails with
\* "out of data", a sequence with values left over fails too.
C5_FromDataExactLength ==
    netPc \in {"built", "failed"}
    => /\ netPc = "built"
            <=> (Len(topology) >= 2 /\ Len(flatIn) = ParamCount(topology))
       /\ Len(topology) < 2 => netErr = "layers"
       /\ (Len(topology) >= 2 /\ Len(flatIn) < ParamCount(topology))
            => netErr = "out of data"
       /\ (Len(topology) >= 2 /\ Len(flatIn) > ParamCount(topology))
            => netErr = "something is wrong"

\* from_data has refused a sequence with exactly one value too many
C5_Witness ==
    /\ netPc = "failed"
    /\ netErr = "something is wrong"
    /\ Len(topology) = 3
    /\ ParamCount(topology) > 0
    /\ Len(flatIn) = ParamCount(topology) + 1

\* C9: propagate with an input vector whose length differs from the first
\* layer's input width (the weight count of its neurons) fails with the arity
\* assertion and returns no output vector.
C9_PropagateArity ==
    propPc # "idle"
    => /\ (network[1] # <<>> /\ Len(inputs) # Len(network[1][1].weights))
            => (propPc = "arity" /\ outputs = <<>>)
       /\ Len(inputs) # topology[1] => (propPc # "ok" /\ outputs = <<>>)

\* propagate has refused an input vector one longer than the first layer's
\* weights, on a network of two layers
C9_Witness ==
    /\ propPc = "arity"
    /\ Len(topology) = 3
    /\ network[1] # <<>>
    /\ Len(inputs) = Len(network[1][1].weights) + 1
    /\ outputs = <<>>

\* C16: a network from_data built, handed as many inputs as the first width
\* of its topology, propagates without failing to as many outputs as the last
\* width, none of them below 0; and every layer has as many neurons as each
\* neuron of the next layer has weights.
C16_PropagateOutput ==
    /\ netPc = "built" =>
          \A l \in 1..(Len(network) - 1) :
              \A n \in 1..Len(network[l + 1]) :
                  Len(network[l + 1][n].weights) = Len(network[l])
    /\ (netPc = "built" /\ propPc # "idle" /\ Len(inputs) = topology[1]) =>
          /\ propPc = "ok"
          /\ Len(outputs) = topology[Len(topology)]
          /\ \A i \in 1..Len(outputs) : outputs[i] >= 0

----------------------------------------------------------------------------
(* Properties of evolve *)

\* the draws the log holds for one slot and one step
DrawsOf(s, step) == { k \in DOMAIN drawLog : drawLog[k].slot = s /\ drawLog[k].step = step }

\* C1: when evolve returns, the result has exactly as many individuals as the
\* input population; every one of them is what create makes of its
\* chromosome, the last of them of the child just mutated; and every output
\* slot had one pass, with one select for parent A and one for parent B.
C1_EvolvePreservesSize ==
    gaPc = "done" =>
        /\ population # <<>>
        /\ Len(offspring) = Len(population)
        /\ slot = Len(population)
        /\ \A i \in 1..Len(offspring) : offspring[i] = Create(offspring[i].chromosome)
        /\ offspring[Len(offspring)] = Create(child)
        /\ \A i \in 1..Len(offspring) :
              /\ Cardinality(DrawsOf(i - 1, "selectA")) = 1
              /\ Cardinality(DrawsOf(i - 1, "selectB")) = 1

C1_Witness ==
    /\ gaPc = "done"
    /\ Len(population) = MaxPop
    /\ Len(offspring) = MaxPop
    /\ generation = MaxGenerations

C3_Rank(step) ==
    CASE step = "selectA" -> 1
      [] step = "selectB" -> 2
      [] step = "crossover" -> 3
      [] step = "mutate" -> 4

\* C3: the draws of one call of evolve are consecutive positions of the one
\* stream handed in, which ends just behind the last of them; the first draw
\* is slot 0's select of parent A; and from each draw to the next the slot
\* never falls and, within a slot, the step never goes back in the order
\* select A, select B, crossover, mutate.
C3_DrawOrder ==
    drawLog # <<>> =>
        /\ drawLog[1].slot = 0
        /\ drawLog[1].step = "selectA"
        /\ rngPos = drawLog[Len(drawLog)].pos + 1
        /\ \A k \in 1..(Len(drawLog) - 1) :
              /\ drawLog[k + 1].pos = drawLog[k].pos + 1
              /\ \/ drawLog[k + 1].slot = drawLog[k].slot + 1 /\ drawLog[k + 1].step = "selectA"
                 \/ /\ drawLog[k + 1].slot = drawLog[k].slot
                    /\ C3_Rank(drawLog[k].step) <= C3_Rank(drawLog[k + 1].step)

C3_Witness ==
    /\ gaPc = "done"
    /\ generation = MaxGenerations
    /\ \A s \in 0..(MaxPop - 1) :
          \A step \in {"selectA", "selectB", "crossover", "mutate"} : DrawsOf(s, step) # {}
    /\ drawLog[1].pos > 0

\* C10: after mutate the chromosome has the length it had before, and with a
\* chance of 0 or a coefficient of 0 every gene has the value it had before.
C10_MutateLeavesGenes ==
    gaPc = "create" =>
        /\ Len(child) = Len(crossed)
        /\ (chance = 0 \/ coefficient = 0) => child = crossed

C10_Witness ==
    /\ gaPc = "create"
    /\ Len(crossed) = MaxLen
    /\ chance = Unit
    /\ coefficient = 0
    /\ \E k \in DOMAIN drawLog : drawLog[k].step = "mutate"

\* C11: with a chance of 1 and a coefficient above 0, every gene differs after
\* mutate from its value before.
C11_EveryGeneChanges ==
    (gaPc = "create" /\ chance = Unit /\ coefficient > 0) =>
        \A j \in 1..Len(child) : child[j] # crossed[j]

----------------------------------------------------------------------------
(* Properties of selection *)

\* the steps of a slot that follow the select of parent A, and of parent B
AfterSelectA == {"selectB", "crossover", "mutate", "create", "done"}

AfterSelectB == {"crossover", "mutate", "create", "done"}

\* C12: what select returned is an individual of the input population with a
\* fitness above 0, whichever of the two selects of a slot it was; and every
\* individual with a fitness above 0 is returned for some value the draw from
\* [0, total) can take.
C12_SelectsPositiveFitness ==
    /\ gaPc \in AfterSelectA =>
          /\ pickA \in 1..Len(population)
          /\ population[pickA].fitness > 0
          /\ parentA = population[pickA].chromosome
    /\ gaPc \in AfterSelectB =>
          /\ pickB \in 1..Len(population)
          /\ population[pickB].fitness > 0
          /\ parentB = population[pickB].chromosome
    /\ gaPc \in {"selectA", "selectB"} =>
          \A i \in 1..Len(population) :
              population[i].fitness > 0 =>
                  \E x \in 0..(FitnessSum(population, Len(population)) - 1) :
                      ChosenIndex(population, x, 1) = i

C12_Witness ==
    /\ gaPc = "crossover"
    /\ Len(population) = MaxPop
    /\ population[1].fitness = 0
    /\ pickA > 1
    /\ pickB > 1

\* some individual of the population has a fitness above 0
SomePositive == \E i \in 1..Len(population) : population[i].fitness > 0

\* C13: with no fitness below 0, select returns an individual exactly when
\* some individual has a fitness above 0: it fails on the empty population and
\* on one whose fitness is 0 throughout; and evolve on a population whose
\* fitness is 0 throughout gets no further than its first select, fails there
\* and has produced no individual.
C13_SelectNeedsPositiveFitness ==
    /\ \A i \in 1..Len(population) : population[i].fitness >= 0
    /\ gaPc = "picked" => SomePositive /\ pickA \in 1..Len(population)
    /\ gaPc = "nopick" => ~SomePositive
    /\ ~SomePositive => gaPc \in {"idle", "selectA", "panic", "nopick"}
    /\ (~SomePositive /\ gaPc = "panic") => (offspring = <<>> /\ drawLog = <<>> /\ slot = 0)
    /\ (~SomePositive /\ gaPc = "selectA") => Select(seed, rngPos, population).st = "panic"

C13_Witness ==
    /\ gaPc = "panic"
    /\ population # <<>>
    /\ ~SomePositive
    /\ generation > 1
    /\ population = [i \in 1..Len(population) |-> Create(population[i].chromosome)]

----------------------------------------------------------------------------
(* Properties of crossover *)

\* C14: a child comes out of crossover only for parents of equal length; it
\* has their length, at every index the gene of parent A or of parent B at
\* that index, and took one coin per gene; a call of evolve over a population
\* that select can pick from fails in crossover, with no child, exactly over
\* parents of unequal lengths.
C14_UniformCrossover ==
    /\ gaPc \in {"mutate", "create"} =>
          /\ Len(parentA) = Len(parentB)
          /\ Len(crossed) = Len(parentA)
          /\ \A i \in 1..Len(crossed) : crossed[i] \in {parentA[i], parentB[i]}
          /\ Cardinality(DrawsOf(slot, "crossover")) = Len(crossed)
    /\ (gaPc = "panic" /\ SomePositive) =>
          /\ Len(parentA) # Len(parentB)
          /\ crossed = <<>>
          /\ child = <<>>
          /\ Len(offspring) = slot
          /\ DrawsOf(slot, "crossover") = {}

C14_Witness ==
    /\ gaPc = "mutate"
    /\ Len(crossed) = MaxLen
    /\ crossed # parentA
    /\ crossed # parentB

----------------------------------------------------------------------------
(* Properties of evolve's input *)

\* C15: no step of a call of evolve changes the input population, neither a
\* chromosome nor a fitness of it; and each select of each slot, the last
\* included, hands over the chromosome of an individual of that population.
C15_InputUnmodified ==
    [][ /\ gaPc # "done" => population' = population
        /\ (gaPc = "selectA" /\ gaPc' # "panic") =>
              /\ pickA' \in 1..Len(population)
              /\ parentA' = population[pickA'].chromosome
        /\ (gaPc = "selectB" /\ gaPc' # "panic") =>
              /\ pickB' \in 1..Len(population)
              /\ parentB' = population[pickB'].chromosome ]_vars

C15_Witness ==
    /\ gaPc = "done"
    /\ Len(offspring) = MaxPop
    /\ generation = 1
    /\ history[1].input = population
    /\ \E i \in 1..Len(offspring) :
          \A k \in 1..Len(population) : offspring[i].chromosome # population[k].chromosome
    /\ parentA = population[pickA].chromosome
    /\ parentB = population[pickB].chromosome

----------------------------------------------------------------------------
(* Properties of the simulation's generations *)

\* C19: with the survivors' chromosomes the data() of brains of one topology,
\* every chromosome handed to evolve, every child and every chromosome of the
\* offspring has that topology's parameter count; evolve fails only when no
\* survivor has a fitness above 0; and from_data with that topology succeeds
\* on every child, generation after generation, making the brain whose data()
\* is the child's chromosome.
C19_LengthPreserved ==
    /\ \A i \in 1..Len(population) :
          Len(population[i].chromosome) = ParamCount(topology)
    /\ \A i \in 1..Len(offspring) :
          Len(offspring[i].chromosome) = ParamCount(topology)
    /\ gaPc \in {"mutate", "create"} => Len(child) = ParamCount(topology)
    /\ gaPc = "panic" => ~SomePositive
    /\ gaPc # "unhydrated"
    /\ (gaPc = "hydrated" /\ generation >= 1) =>
          /\ Len(brains) = Len(offspring)
          /\ \A i \in 1..Len(brains) : NetworkData(brains[i]) = offspring[i].chromosome

C19_Witness ==
    /\ gaPc = "hydrated"
    /\ generation = MaxGenerations
    /\ ParamCount(topology) = MaxLen
    /\ Len(brains) = MaxPop
    /\ Len(topology) = MaxLayers

====
